---- MODULE Spec2Model ----
(***************************************************************************)
(* RxState (libs/state/src/lib/rx-state.service.ts): a local reactive      *)
(* state container.  The container's fields and the operations of its      *)
(* public surface are modelled as a state machine; the collaborators it    *)
(* imports from @rx-angular/state/selections (the accumulator, the         *)
(* side-effect runner, the select operator) and ./signal-state-proxy are   *)
(* modelled from their documented contract.                                *)
(***************************************************************************)
EXTENDS Integers, Sequences, FiniteSets, TLC

(***************************************************************************)
(* Bounds and input domains                                                *)
(***************************************************************************)
\* Field names of the state type T.
Keys == {"a", "b"}

\* Field values (primitives, compared with ===).
Vals == {1, 2}

\* At most this many patches land in one behaviour.
MaxPatches == 3

\* Subscribers of select views, in the order in which they subscribe.
Subs == {"s1", "s2"}

Earlier(s) == {t \in Subs : t = "s1" /\ s = "s2"}

\* JavaScript `undefined` as the result of reading a whole snapshot.
Undefined == [undefined |-> TRUE]

\* JavaScript `undefined` as the value of a field that is not there.
UndefinedVal == (CHOOSE v \in Vals : \A w \in Vals : v <= w) - 1

\* Partial<T>: a record naming zero or more fields.
Patches == UNION {[D -> Vals] : D \in SUBSET Keys}

\* The object `{}`.
EmptyRecord == [k \in {} |-> UndefinedVal]

\* Object.keys(o).length
KeyCount(o) == Cardinality(DOMAIN o)

\* o[k] for a record o
Pluck(o, k) == IF k \in DOMAIN o THEN o[k] ELSE UndefinedVal

(***************************************************************************)
(* Accumulation functions                                                  *)
(***************************************************************************)
\* The default accumulator: (st, sl) => ({...st, ...sl}).
DefaultAccumulator(st, sl) ==
  [k \in (DOMAIN st) \cup (DOMAIN sl) |->
     IF k \in DOMAIN sl THEN sl[k] ELSE st[k]]

\* A custom accumulator a caller may install: (st, sl) => ({...sl, ...st}).
KeepFirstAccumulator(st, sl) ==
  [k \in (DOMAIN st) \cup (DOMAIN sl) |->
     IF k \in DOMAIN st THEN st[k] ELSE sl[k]]

AccumulationFns == {"default", "keepFirst"}

Accumulate(fn, st, sl) ==
  IF fn = "default" THEN DefaultAccumulator(st, sl)
  ELSE KeepFirstAccumulator(st, sl)

(***************************************************************************)
(* Projection functions a caller passes to set(fn) and set(key, fn)        *)
(***************************************************************************)
\* ProjectStateFn<T>: oldState => Partial<T>
\*   inc_k  : s => ({k: s.k + 1})
\*   swap   : s => ({a: s.b, b: s.a})
\*   empty  : s => ({})
ProjectStateFns == {<<"inc", k>> : k \in Keys} \cup {<<"swap">>, <<"empty">>}

\* Whether fn(s) evaluates to a Partial<T> over Vals (the inputs are kept
\* inside the value domain).
ProjectStateDefined(fn, s) ==
  CASE fn[1] = "inc" -> fn[2] \in DOMAIN s /\ s[fn[2]] + 1 \in Vals
    [] fn[1] = "swap" -> DOMAIN s = Keys
    [] OTHER -> TRUE

ApplyProjectState(fn, s) ==
  CASE fn[1] = "inc" -> [k \in {fn[2]} |-> s[k] + 1]
    [] fn[1] = "swap" -> [k \in Keys |-> s[CHOOSE j \in Keys : j # k]]
    [] OTHER -> EmptyRecord

\* ProjectValueFn<T, K>: oldState => T[K]
\*   inc_k   : s => s.k + 1
\*   other_k : s => s[the other key]
ProjectValueFns == {<<"inc", k>> : k \in Keys} \cup {<<"other", k>> : k \in Keys}

ProjectValueDefined(fn, s) ==
  CASE fn[1] = "inc" -> fn[2] \in DOMAIN s /\ s[fn[2]] + 1 \in Vals
    [] OTHER -> (Keys \ {fn[2]}) \subseteq DOMAIN s

ApplyProjectValue(fn, s) ==
  CASE fn[1] = "inc" -> s[fn[2]] + 1
    [] OTHER -> s[CHOOSE j \in Keys : j # fn[2]]

(***************************************************************************)
(* State                                                                   *)
(***************************************************************************)
VARIABLES
  state,          \* accumulator.state: the current snapshot
  stateRef,       \* identity of the object held in accumulator.state
  accumulatorFn,  \* the accumulation function in force
  accOpen,        \* the accumulator's shared connection is live
  replay,         \* state$: the replayed last emission, <<>> or <<e>>
  mergeCalls,     \* invocations of the accumulation function
  history,        \* the patches that landed, in order, with the function used
  subs,           \* subscribers of select views
  destroyed,      \* this.subscription.closed
  runner,         \* the Side-Effect Runner's subscriptions; runner[1] is the constructor's
  effects,        \* streams registered with hold
  sources,        \* streams registered with connect
  proxies,        \* the signal proxies created so far; the last is signalStoreProxy
  handles,        \* for each key, the handles signal(key) has returned
  lastOp,         \* the last operation and what it did
  cache,          \* InMemoryCacheHandler.cache: the Map's entries in insertion order
  cacheLog        \* the calls of add, delete and clearCache made so far, in order

accVars == <<state, stateRef, accumulatorFn, accOpen, replay, mergeCalls, history>>
fxVars == <<runner, effects>>
sigVars == <<proxies, handles>>
cacheVars == <<cache, cacheLog>>
vars == <<state, stateRef, accumulatorFn, accOpen, replay, mergeCalls, history,
          subs, destroyed, runner, effects, sources, proxies, handles, lastOp,
          cache, cacheLog>>

(***************************************************************************)
(* Reads                                                                   *)
(***************************************************************************)
\* get() without the key test.
GetAlways == state

\* get() with the key test off by one.
GetOffByOne ==
  LET hasStateAnyKeys == KeyCount(state) > 1
  IN  IF hasStateAnyKeys THEN state ELSE Undefined

\* get(): the snapshot, or undefined while it has no keys.
Get ==
  LET hasStateAnyKeys == KeyCount(state) > 0
  IN  IF hasStateAnyKeys THEN state ELSE Undefined

\* get(k): safePluck(accumulator.state, [k]).
GetKey(k) == Pluck(state, k)

(***************************************************************************)
(* Selector: the select operator over the accumulator's output             *)
(***************************************************************************)
\* An emission of the accumulator: the snapshot object and its identity.
Emission(ref, snap) == [ref |-> ref, val |-> snap]

\* select(): the snapshot itself;  select(k): map(s => s[k]).  The value of
\* a field is carried labelled with the field it was read from.
ViewValue(args, e) ==
  IF args = <<>> THEN e
  ELSE [ref |-> e.ref, val |-> [k \in {args[1]} |-> Pluck(e.val, k)]]

\* filter(v => v !== undefined)
ViewDefined(args, v) ==
  IF args = <<>> THEN TRUE ELSE \A k \in DOMAIN v.val : v.val[k] # UndefinedVal

\* distinctUntilChanged(): === on what the view carries, so object identity
\* for a snapshot and the value for a primitive field.
ViewSame(args, v, w) == IF args = <<>> THEN v.ref = w.ref ELSE v.val = w.val

\* One upstream emission e through the pipeline of subscriber record sub.
Deliver(sub, e) ==
  LET v == ViewValue(sub.view.args, e)
      n == Len(sub.recv)
  IN  IF /\ sub.active
         /\ ViewDefined(sub.view.args, v)
         /\ (n = 0 \/ ~ViewSame(sub.view.args, sub.recv[n], v))
      THEN [sub EXCEPT !.recv = Append(@, v)]
      ELSE sub

\* An output that is not shared: one more subscription of the accumulation
\* pipeline for every subscriber of a view.
UpstreamPerSubscriber(nSubscribers) == 1 + nSubscribers

\* The accumulator's output is published: however many subscribers the views
\* have, the accumulation pipeline is subscribed once.
UpstreamSubscriptions(nSubscribers) == 1

(***************************************************************************)
(* Accumulator                                                             *)
(***************************************************************************)
\* A subscriber: the arguments it gave to select, the view select built for
\* them, what it has received, and how many patches had landed and how many
\* values it had received when subscribe returned.
NoSub ==
  [active |-> FALSE, asked |-> <<>>, view |-> [source |-> "state$", args |-> <<>>],
   recv |-> <<>>, since |-> 0, initial |-> 0, failed |-> FALSE]

\* What a landing patch changes, as one value.
Cur ==
  [state |-> state, ref |-> stateRef, replay |-> replay, mergeCalls |-> mergeCalls,
   history |-> history, subs |-> subs, proxies |-> proxies]

\* For each created handle of each proxy: the value a landed snapshot gives it
\* (the handle follows $.pipe(select(k)): defined and changed values only).
SignalsAfter(tables, snap) ==
  [g \in DOMAIN tables |->
     [k \in DOMAIN tables[g] |->
        IF Pluck(snap, k) # UndefinedVal THEN Pluck(snap, k) ELSE tables[g][k]]]

\* A slice on its way to the accumulator: the patch, the form of the call
\* that produced it and, for a projection, the identity of the snapshot the
\* projection function was given (<<>> when no function was involved).
Slice(patch, form, read) == [slice |-> patch, form |-> form, read |-> read]

\* One slice reaches the accumulator's scan: the accumulation function is
\* applied, the result is stored, replayed and sent to every view.
LandOn(a, sl) ==
  LET merged == Accumulate(accumulatorFn, a.state, sl.slice)
      e == Emission(a.ref + 1, merged)
      nSubscribers == Cardinality({s \in Subs : a.subs[s].active})
  IN  [state |-> merged,
       ref |-> a.ref + 1,
       replay |-> <<e>>,
       mergeCalls |-> a.mergeCalls + UpstreamSubscriptions(nSubscribers),
       history |-> Append(a.history,
                     [slice |-> sl.slice, acc |-> accumulatorFn, form |-> sl.form,
                      read |-> sl.read, base |-> a.ref]),
       subs |-> [s \in Subs |-> Deliver(a.subs[s], e)],
       proxies |-> SignalsAfter(a.proxies, merged)]

\* The slices of a queue land one after the other, each merge completing
\* before the next starts.
RECURSIVE LandSeq(_, _)
LandSeq(a, slices) ==
  IF slices = <<>> THEN a
  ELSE LandSeq(LandOn(a, Head(slices)), Tail(slices))

Commit(a) ==
  /\ state' = a.state
  /\ stateRef' = a.ref
  /\ replay' = a.replay
  /\ mergeCalls' = a.mergeCalls
  /\ history' = a.history
  /\ subs' = a.subs
  /\ proxies' = a.proxies
  /\ UNCHANGED <<accumulatorFn, accOpen>>

\* accumulator.nextSlice(slice) and what follows from it before the call
\* returns; nothing happens once the connection is closed.
NextSlice(slices) ==
  IF accOpen
  THEN Commit(LandSeq(Cur, slices))
  ELSE UNCHANGED <<accVars, subs, proxies>>

CanLand(n) == Len(history) + n <= MaxPatches

(***************************************************************************)
(* set                                                                     *)
(***************************************************************************)
SetOp(form, fn, calls, arg, slice) ==
  [op |-> "set", form |-> form, fn |-> fn, fnCalls |-> calls, fnArg |-> arg,
   slice |-> slice, before |-> state, landed |-> accOpen, reentry |-> <<>>]

\* set(partial) that returns early when the patch changes no field value.
SetPartialSkipSame(p) ==
  /\ CanLand(1)
  /\ IF Accumulate(accumulatorFn, state, p) = state
     THEN UNCHANGED <<accVars, subs, proxies>>
     ELSE NextSlice(<<Slice(p, "partial", <<>>)>>)
  /\ UNCHANGED cacheVars
  /\ lastOp' = SetOp("partial", <<>>, 0, Undefined, p)
  /\ UNCHANGED <<destroyed, fxVars, sources, handles>>

\* set(partial) that assigns the merged snapshot itself, not going through
\* the accumulator.
SetPartialDirect(p) ==
  /\ CanLand(1)
  /\ state' = Accumulate(accumulatorFn, state, p)
  /\ stateRef' = stateRef + 1
  /\ UNCHANGED cacheVars
  /\ lastOp' = SetOp("partial", <<>>, 0, Undefined, p)
  /\ UNCHANGED <<accumulatorFn, accOpen, replay, mergeCalls, history, subs, proxies,
                 destroyed, fxVars, sources, handles>>

\* set(partial)
SetPartial(p) ==
  /\ CanLand(1)
  /\ NextSlice(<<Slice(p, "partial", <<>>)>>)
  /\ UNCHANGED cacheVars
  /\ lastOp' = SetOp("partial", <<>>, 0, Undefined, p)
  /\ UNCHANGED <<destroyed, fxVars, sources, handles>>

\* The slice set(projectState) hands to the accumulator when the snapshot
\* object is s, with identity ref.
ProjectedSlice(fn, s, ref) == Slice(ApplyProjectState(fn, s), "project", <<ref>>)

\* set(projectState)
SetProject(fn) ==
  /\ CanLand(1)
  /\ ProjectStateDefined(fn, state)
  /\ LET sl == ProjectedSlice(fn, state, stateRef)
     IN  /\ NextSlice(<<sl>>)
         /\ UNCHANGED cacheVars
         /\ lastOp' = SetOp("project", fn, 1, state, sl.slice)
  /\ UNCHANGED <<destroyed, fxVars, sources, handles>>

\* set(key, projectSlice)
SetKeyProject(key, fn) ==
  /\ CanLand(1)
  /\ ProjectValueDefined(fn, state)
  /\ LET sl == Slice([k \in {key} |-> ApplyProjectValue(fn, state)], "key", <<stateRef>>)
     IN  /\ NextSlice(<<sl>>)
         /\ UNCHANGED cacheVars
         /\ lastOp' = SetOp("key", fn, 1, state, sl.slice)
  /\ UNCHANGED <<destroyed, fxVars, sources, handles>>

\* Re-entrant calls of set that are dropped while the accumulator is inside
\* an emission.
SetPartialReentrantLost(p, fns) ==
  LET first == LandOn(Cur, Slice(p, "partial", <<>>))
  IN  /\ accOpen
      /\ fns # <<>>
      /\ CanLand(1 + Len(fns))
      /\ \E s \in Subs : first.subs[s] # subs[s]
      /\ Commit(first)
      /\ UNCHANGED cacheVars
      /\ lastOp' = [SetOp("partial", <<>>, 0, Undefined, p) EXCEPT !.reentry = fns]
      /\ UNCHANGED <<destroyed, fxVars, sources, handles>>

\* set(partial) with a subscriber of a view that, in its callback for the
\* emission of that patch, calls set(projectState) once for each function of
\* fns.  The accumulator is still inside the emission, so each call evaluates
\* its function on the snapshot it finds and its slice waits in the queue
\* until the callback has returned.
SetPartialReentrant(p, fns) ==
  LET first == LandOn(Cur, Slice(p, "partial", <<>>))
      queued == [i \in DOMAIN fns |-> ProjectedSlice(fns[i], first.state, first.ref)]
  IN  /\ accOpen
      /\ fns # <<>>
      /\ CanLand(1 + Len(fns))
      /\ \E s \in Subs : first.subs[s] # subs[s]
      /\ \A i \in DOMAIN fns : ProjectStateDefined(fns[i], first.state)
      /\ Commit(LandSeq(first, queued))
      /\ UNCHANGED cacheVars
      /\ lastOp' = [SetOp("partial", <<>>, 0, Undefined, p) EXCEPT !.reentry = fns]
      /\ UNCHANGED <<destroyed, fxVars, sources, handles>>

(***************************************************************************)
(* set: the dispatch on the arguments                                      *)
(***************************************************************************)
\* JavaScript values a caller may pass, with what typeof says of them.
JsUndefined == [type |-> "undefined"]

JsNull == [type |-> "null"]

JsRecord(p) == [type |-> "record", rec |-> p]

JsFunction(fn) == [type |-> "function", fn |-> fn]

JsString(str) == [type |-> "string", str |-> str]

JsNumber(n) == [type |-> "number", num |-> n]

\* typeof x
TypeOf(x) ==
  IF x.type \in {"record", "null", "observable"} THEN "object"
  ELSE IF x.type = "signal" THEN "function"
  ELSE x.type

\* isKeyOf<T>(k): k is a string, a symbol or a number.
IsKeyOf(x) == x.type \in {"string", "symbol", "number"}

\* The fields a slice contributes when it is spread into the snapshot:
\* spreading null contributes none.
SpreadOf(x) == IF x.type = "record" THEN x.rec ELSE EmptyRecord

\* The first and second arguments of the calls of set that are modelled.
SetFirstArgs ==
  {JsUndefined, JsNull}
    \cup {JsRecord(p) : p \in {EmptyRecord, [a |-> 1], [a |-> 2]}}
    \cup {JsFunction(fn) : fn \in {<<"inc", "a">>, <<"empty">>}}
    \cup {JsString(k) : k \in Keys}

SetSecondArgs ==
  {JsUndefined, JsNull, JsNumber(1), JsFunction(<<"inc", "a">>), JsFunction(<<"other", "b">>)}

\* The branch of set the arguments take.
SetBranch(first, second) ==
  IF TypeOf(first) = "object" /\ second = JsUndefined THEN "partial"
  ELSE IF TypeOf(first) = "function" /\ second = JsUndefined THEN "project"
  ELSE IF IsKeyOf(first) /\ TypeOf(second) = "function" THEN "key"
  ELSE "throw"

\* set(keyOrStateOrProjectState, stateOrSliceProjectFn?) for any arguments:
\* one of the three branches hands a slice to the accumulator, or the call
\* throws 'wrong params passed to set'.
Set(first, second) ==
  LET branch == SetBranch(first, second)
      sl == CASE branch = "partial" -> Slice(SpreadOf(first), "partial", <<>>)
              [] branch = "project" -> ProjectedSlice(first.fn, state, stateRef)
              [] branch = "key" ->
                   Slice([k \in {first.str} |-> ApplyProjectValue(second.fn, state)],
                         "key", <<stateRef>>)
              [] OTHER -> Slice(EmptyRecord, "throw", <<>>)
  IN  /\ CanLand(1)
      /\ branch = "project" => ProjectStateDefined(first.fn, state)
      /\ branch = "key" => ProjectValueDefined(second.fn, state)
      /\ IF branch = "throw"
         THEN UNCHANGED <<accVars, subs, proxies>>
         ELSE NextSlice(<<sl>>)
      /\ UNCHANGED cacheVars
      /\ lastOp' = [op |-> "set", form |-> branch, first |-> first, second |-> second,
                    threw |-> (branch = "throw"), slice |-> sl.slice, before |-> state,
                    subsBefore |-> subs, landed |-> (accOpen /\ branch # "throw")]
      /\ UNCHANGED <<destroyed, fxVars, sources, handles>>

(***************************************************************************)
(* get with a path of keys                                                 *)
(***************************************************************************)
\* The longest path of keys handed to get.
MaxPathLen == 2

\* The non-empty paths k1..kn handed to get.
Paths == UNION {[1..n -> Keys] : n \in 1..MaxPathLen}

\* Values of the fields of a state type whose fields may hold objects: a
\* number, null, or an object of numbers.
NestedVals ==
  {JsNumber(1), JsNull}
    \cup {JsRecord(r) : r \in {EmptyRecord, [b |-> JsNumber(1)],
                               [a |-> JsNumber(2), b |-> JsNumber(1)]}}

\* Partial<T> for that state type.
NestedPatches ==
  {EmptyRecord} \cup {[k \in {"a"} |-> v] : v \in NestedVals}
    \cup {[b |-> JsNumber(2)], [a |-> JsNumber(1), b |-> JsRecord([a |-> JsNumber(2)])]}

\* safePluck(stateObject, keys): the value found by following the keys, and
\* undefined as soon as a key is not there or the value reached is no object.
RECURSIVE SafePluck(_, _)
SafePluck(o, keys) ==
  IF keys = <<>> THEN o
  ELSE IF o.type # "record" THEN JsUndefined
  ELSE IF Head(keys) \notin DOMAIN o.rec THEN JsUndefined
  ELSE SafePluck(o.rec[Head(keys)], Tail(keys))

\* get(k1..kn) that reads the first key only.
GetPathShallow(keys) ==
  IF Len(keys) > 0
  THEN SafePluck(JsRecord(state), <<keys[1]>>)
  ELSE IF KeyCount(state) > 0 THEN JsRecord(state) ELSE JsUndefined

\* get(k1..kn): with keys, safePluck on accumulator.state, whatever the
\* snapshot holds; without keys, the whole-snapshot read.
GetPath(keys) ==
  IF Len(keys) > 0
  THEN SafePluck(JsRecord(state), keys)
  ELSE IF KeyCount(state) > 0 THEN JsRecord(state) ELSE JsUndefined

\* A call of get(k1..kn); get has no throw statement and writes no field.
GetKeys(keys) ==
  /\ UNCHANGED cacheVars
  /\ lastOp' = [op |-> "get", keys |-> keys, threw |-> FALSE,
                value |-> GetPath(keys), whole |-> GetPath(<<>>), before |-> state]
  /\ UNCHANGED <<accVars, subs, destroyed, fxVars, sources, sigVars>>

(***************************************************************************)
(* setAccumulator                                                          *)
(***************************************************************************)
\* setAccumulator that does not pass the function on.
SetAccumulatorIgnored(fn) ==
  /\ UNCHANGED cacheVars
  /\ lastOp' = [op |-> "setAccumulator", fn |-> fn, before |-> state,
                subsBefore |-> subs, landed |-> Len(history), replayBefore |-> replay]
  /\ UNCHANGED <<accVars, subs, destroyed, fxVars, sources, sigVars>>

\* setAccumulator(accumulatorFn): accumulator.nextAccumulator(accumulatorFn).
\* The function is used for the slices that arrive from now on.
SetAccumulator(fn) ==
  /\ accumulatorFn' = fn
  /\ UNCHANGED cacheVars
  /\ lastOp' = [op |-> "setAccumulator", fn |-> fn, before |-> state,
                subsBefore |-> subs, landed |-> Len(history), replayBefore |-> replay]
  /\ UNCHANGED <<state, stateRef, accOpen, replay, mergeCalls, history, subs, destroyed,
                 fxVars, sources, sigVars>>

(***************************************************************************)
(* select                                                                  *)
(***************************************************************************)
\* The argument lists modelled: select() and select(k).
SelectArgs == {<<>>} \cup {<<k>> : k \in Keys}

\* select that drops its arguments.
RxSelectNoArgs(args) == [source |-> "state$", args |-> <<>>]

\* select piped from the unreplayed `$` instead of state$.
RxSelectUnreplayed(args) == [source |-> "$", args |-> args]

\* select(...args): accumulator.state$ piped through select(...args).
RxSelect(args) == [source |-> "state$", args |-> args]

\* A consumer subscribes to select(...args).  state$ replays its last
\* emission to the new subscriber, and the error it ended with if it has
\* failed.  After teardown the read is a caller error with no defined
\* outcome: the replay may or may not arrive.
SubscribeSelect(s, args) ==
  /\ ~subs[s].active
  /\ \A t \in Earlier(s) : subs[t].active
  /\ \E replayed \in BOOLEAN :
       /\ (~destroyed => replayed)
       /\ LET view == RxSelect(args)
              fresh == [active |-> TRUE, asked |-> args, view |-> view, recv |-> <<>>,
                        since |-> Len(history), initial |-> 0,
                        failed |-> (~accOpen /\ ~destroyed)]
              got == IF replayed /\ view.source = "state$" /\ replay # <<>>
                     THEN Deliver(fresh, replay[1])
                     ELSE fresh
          IN  /\ subs' = [subs EXCEPT ![s] = [got EXCEPT !.initial = Len(got.recv)]]
              /\ UNCHANGED cacheVars
              /\ lastOp' = [op |-> "subscribeSelect", sub |-> s, args |-> args,
                            landed |-> Len(history), live |-> ~destroyed]
  /\ UNCHANGED <<accVars, destroyed, fxVars, sources, sigVars>>

(***************************************************************************)
(* hold: the Side-Effect Runner                                            *)
(***************************************************************************)
\* Streams a caller registers with hold.
Effects == {"e1", "e2"}

\* The public subscribe() is called at most this many times by callers.
MaxSubscribeCalls == 1

\* A registration: whether a callback came with it, the state of its stream,
\* the subscriptions of the Runner it was handed to, and whether it was made
\* before teardown.
NoEffect == [held |-> FALSE, hasFn |-> FALSE, stream |-> "live", on |-> {}, early |-> FALSE]

\* hold without catchError: the error of the stream goes on to the Runner.
HoldSideEffectUncaught(notification) == notification

\* obsOrObsWithSideEffect.pipe(catchError((e) => EMPTY)): an error of the
\* stream reaches the Runner as a completion.
HoldSideEffect(notification) ==
  IF notification = "error" THEN "complete" ELSE notification

\* sideEffect.pipe(tap(sideEffectFn)): the callback runs on every value; a
\* callback that throws turns the value into an error of the registered stream.
TapSideEffectFn(notification, hasFn, throws) ==
  IF notification = "next" /\ hasFn /\ throws THEN "error" ELSE notification

\* What the Runner receives from a registration when its stream sends
\* `notification`.
Registered(notification, hasFn, throws) ==
  TapSideEffectFn(HoldSideEffect(notification), hasFn, throws)

\* The Runner merges the registered streams: values are discarded, a
\* completion ends that registration, an error ends the merged subscription.
RunnerOn(status, notification) ==
  IF status = "live" /\ notification = "error" THEN "errored" ELSE status

LiveRunners == {i \in DOMAIN runner : runner[i] = "live"}

\* hold(stream) and hold(stream, sideEffectFn): nextEffectObservable hands the
\* stream to the subscriptions of the Runner that are live at the call.
Hold(e, hasFn) ==
  /\ ~effects[e].held
  /\ effects' = [effects EXCEPT ![e] =
       [held |-> TRUE, hasFn |-> hasFn, stream |-> "live", on |-> LiveRunners,
        early |-> ~destroyed]]
  /\ UNCHANGED cacheVars
  /\ lastOp' = [op |-> "hold", effect |-> e]
  /\ UNCHANGED <<accVars, subs, destroyed, runner, sources, sigVars>>

\* hold that hands the stream to the accumulator: its emissions arrive there
\* as slices.
EffectNotifyAccumulated(e, notification, throws) ==
  /\ effects[e].held
  /\ effects[e].stream = "live"
  /\ CanLand(1)
  /\ NextSlice(<<Slice(EmptyRecord, "connect", <<>>)>>)
  /\ UNCHANGED cacheVars
  /\ lastOp' = [op |-> "effect", effect |-> e, notification |-> notification,
                ran |-> 0, threw |-> FALSE, early |-> effects[e].early]
  /\ UNCHANGED <<destroyed, fxVars, sources, handles>>

\* A held stream sends one notification to every live subscription of the
\* Runner that it was handed to.
EffectNotify(e, notification, throws) ==
  /\ effects[e].held
  /\ effects[e].stream = "live"
  /\ LET out == Registered(notification, effects[e].hasFn, throws)
         reached == effects[e].on \cap LiveRunners
         ran == IF notification = "next" /\ effects[e].hasFn
                THEN Cardinality(reached) ELSE 0
     IN  /\ runner' = [i \in DOMAIN runner |->
                         IF i \in reached THEN RunnerOn(runner[i], out) ELSE runner[i]]
         /\ effects' = [effects EXCEPT ![e].stream =
              CASE notification = "error" -> "errored"
                [] notification = "complete" -> "completed"
                [] OTHER -> "live"]
         /\ UNCHANGED cacheVars
         /\ lastOp' = [op |-> "effect", effect |-> e, notification |-> notification,
                       ran |-> ran, threw |-> (ran > 0 /\ throws),
                       early |-> effects[e].early]
  /\ UNCHANGED <<accVars, subs, destroyed, sources, sigVars>>

EffectEmit(e, throws) == EffectNotify(e, "next", throws)

EffectError(e) == EffectNotify(e, "error", FALSE)

EffectComplete(e) == EffectNotify(e, "complete", FALSE)

(***************************************************************************)
(* connect                                                                 *)
(***************************************************************************)
\* Streams a caller registers with connect.
Sources == {"c1", "c2"}

\* The streams are connected in this order.
EarlierSources(c) == {d \in Sources : d = "c1" /\ c = "c2"}

\* Stream c may be connected now: it is not connected yet, and the streams
\* before it are.
Unconnected(c) ==
  /\ sources[c].shape = "none"
  /\ \A d \in EarlierSources(c) : sources[d].shape # "none"

\* ProjectStateReducer<T, V>: (oldState, value) => Partial<T>
\*   set_k : (s, v) => ({k: v})
\*   sum_k : (s, v) => ({k: s.k + v})
ProjectStateReducers == {<<"set", k>> : k \in Keys} \cup {<<"sum", k>> : k \in Keys}

\* ProjectValueReducer<T, K, V>: (oldState, value) => T[K]
\*   val   : (s, v) => v
\*   sum_k : (s, v) => s.k + v
ProjectValueReducers == {<<"val">>} \cup {<<"sum", k>> : k \in Keys}

\* A second argument of connect that is neither a stream nor a function.
NotAFunction == <<"notAFunction">>

\* Calling the reducer throws: it is not a function, or it reads a field of
\* an oldState that is undefined.
ReducerThrows(r, s) == r = NotAFunction \/ (r[1] = "sum" /\ s = Undefined)

\* Whether the reducer's result stays inside the value domain (the inputs of
\* the model are kept there).
ReducerDefined(r, s, v) ==
  (r[1] = "sum" /\ s # Undefined) => (r[2] \in DOMAIN s /\ s[r[2]] + v \in Vals)

ApplyStateReducer(r, s, v) ==
  IF r[1] = "set" THEN [k \in {r[2]} |-> v] ELSE [k \in {r[2]} |-> s[k] + v]

ApplyValueReducer(r, s, v) == IF r[1] = "val" THEN v ELSE s[r[2]] + v

NoSource ==
  [shape |-> "none", key |-> "a", reducer |-> <<>>, subscribed |-> FALSE, early |-> FALSE]

\* accumulator.nextSliceObservable(slice$): the stream is handed to the
\* accumulator, which subscribes to it if its connection is live.
NextSliceObservable(shape, key, reducer) ==
  [shape |-> shape, key |-> key, reducer |-> reducer, subscribed |-> accOpen,
   early |-> ~destroyed]

\* connect(slice$)
ConnectSlices(c) ==
  /\ Unconnected(c)
  /\ sources' = [sources EXCEPT ![c] = NextSliceObservable("slice", "a", <<>>)]
  /\ UNCHANGED cacheVars
  /\ lastOp' = [op |-> "connect", source |-> c]
  /\ UNCHANGED <<accVars, subs, destroyed, fxVars, sigVars>>

\* connect(input$, projectFn): input$.pipe(map((v) => stateReducer(this.get(), v)))
ConnectReducer(c, reducer) ==
  /\ Unconnected(c)
  /\ sources' = [sources EXCEPT ![c] = NextSliceObservable("reduce", "a", reducer)]
  /\ UNCHANGED cacheVars
  /\ lastOp' = [op |-> "connect", source |-> c]
  /\ UNCHANGED <<accVars, subs, destroyed, fxVars, sigVars>>

\* connect(key, slice$): slices$.pipe(map((value) => ({[key]: value})))
ConnectKey(c, key) ==
  /\ Unconnected(c)
  /\ sources' = [sources EXCEPT ![c] = NextSliceObservable("key", key, <<>>)]
  /\ UNCHANGED cacheVars
  /\ lastOp' = [op |-> "connect", source |-> c]
  /\ UNCHANGED <<accVars, subs, destroyed, fxVars, sigVars>>

\* connect(key, input$, projectSliceFn):
\* slices$.pipe(map((value) => ({[key]: projectValueFn(this.get(), value)})))
ConnectKeyReducer(c, key, reducer) ==
  /\ Unconnected(c)
  /\ sources' = [sources EXCEPT ![c] = NextSliceObservable("keyReduce", key, reducer)]
  /\ UNCHANGED cacheVars
  /\ lastOp' = [op |-> "connect", source |-> c]
  /\ UNCHANGED <<accVars, subs, destroyed, fxVars, sigVars>>

\* The slice a connected source contributes when it emits v.
SourceSlice(src, v) ==
  CASE src.shape = "key" -> [k \in {src.key} |-> v]
    [] src.shape = "reduce" -> ApplyStateReducer(src.reducer, Get, v)
    [] src.shape = "keyReduce" -> [k \in {src.key} |-> ApplyValueReducer(src.reducer, Get, v)]
    [] OTHER -> v

\* The patches the larger specifications feed to set(partial) and to
\* connected streams of patches.
FewPatches == {p \in Patches : \A k \in DOMAIN p : k = "a" \/ p[k] = 1}

SourceValues(src) == IF src.shape = "slice" THEN FewPatches ELSE Vals

\* An error reaches the accumulator's merged input: it goes out on the output
\* stream to every subscriber of a view, and the accumulation has ended, with
\* every connected stream unsubscribed.
AccumulatorError ==
  /\ accOpen' = FALSE
  /\ subs' = [s \in Subs |-> IF subs[s].active THEN [subs[s] EXCEPT !.failed = TRUE]
                             ELSE subs[s]]
  /\ sources' = [c \in Sources |-> [sources[c] EXCEPT !.subscribed = FALSE]]
  /\ UNCHANGED <<state, stateRef, accumulatorFn, replay, mergeCalls, history, proxies>>

\* A connected stream emits v.  A reducer that throws turns the emission into
\* an error of the stream handed to the accumulator.
SourceEmit(c, v) ==
  LET src == sources[c]
      throws == src.shape \in {"reduce", "keyReduce"} /\ ReducerThrows(src.reducer, Get)
  IN  /\ src.shape # "none"
      /\ CanLand(1)
      /\ (src.subscribed /\ ~throws /\ src.shape \in {"reduce", "keyReduce"})
           => ReducerDefined(src.reducer, Get, v)
      /\ IF src.subscribed /\ throws THEN AccumulatorError
         ELSE IF src.subscribed
         THEN /\ NextSlice(<<Slice(SourceSlice(src, v), "connect", <<>>)>>)
              /\ UNCHANGED sources
         ELSE UNCHANGED <<accVars, subs, proxies, sources>>
      /\ UNCHANGED cacheVars
      /\ lastOp' = [op |-> "sourceEmit", source |-> c, value |-> <<v>>, shape |-> src.shape,
                    got |-> Get, before |-> state, subscribed |-> src.subscribed,
                    threw |-> (src.subscribed /\ throws), early |-> src.early]
      /\ UNCHANGED <<destroyed, fxVars, handles>>

\* set(partial) with a subscriber of a view that, in its callback for the
\* emission of that patch, makes the connected stream c emit v.  The slice
\* of that emission waits in the accumulator's queue until the callback has
\* returned.
SetPartialReentrantEmit(p, c, v) ==
  LET first == LandOn(Cur, Slice(p, "partial", <<>>))
      src == sources[c]
  IN  /\ accOpen
      /\ src.shape \in {"slice", "key"}
      /\ src.subscribed
      /\ CanLand(2)
      /\ \E s \in Subs : first.subs[s] # subs[s]
      /\ Commit(LandSeq(first, <<Slice(SourceSlice(src, v), "connect", <<>>)>>))
      /\ UNCHANGED cacheVars
      /\ lastOp' = [SetOp("partial", <<>>, 0, Undefined, p) EXCEPT !.reentry = <<<<"emit", c>>>>]
      /\ UNCHANGED <<destroyed, fxVars, sources, handles>>

\* connect with the error handling of hold: an error of the stream reaches
\* the accumulator as a completion.
ConnectedNotificationCaught(notification) ==
  IF notification = "error" THEN "complete" ELSE notification

\* connect hands the stream to the accumulator as it is, or through map
\* alone: a notification of the stream reaches the accumulator unchanged.
ConnectedNotification(notification) == notification

\* A connected stream errors.
SourceError(c) ==
  /\ sources[c].shape # "none"
  /\ IF ~sources[c].subscribed THEN UNCHANGED <<accVars, subs, proxies, sources>>
     ELSE IF ConnectedNotification("error") = "error" THEN AccumulatorError
     ELSE /\ sources' = [sources EXCEPT ![c].subscribed = FALSE]
          /\ UNCHANGED <<accVars, subs, proxies>>
  /\ UNCHANGED cacheVars
  /\ lastOp' = [op |-> "sourceError", source |-> c, before |-> state,
                subscribed |-> sources[c].subscribed, subsBefore |-> subs,
                early |-> sources[c].early]
  /\ UNCHANGED <<destroyed, fxVars, handles>>

\* Further JavaScript values a caller may pass to connect: a stream and a
\* signal, each wrapping the source it reads.
JsObservable(c) == [type |-> "observable", id |-> c]

JsSignal(c) == [type |-> "signal", id |-> c]

IsObservable(x) == x.type = "observable"

IsSignal(x) == x.type = "signal"

\* What `if (x)` and `x && ...` make of x.
Truthy(x) ==
  /\ x.type \notin {"undefined", "null"}
  /\ ~(x.type = "string" /\ x.str = "")
  /\ ~(x.type = "number" /\ x.num = 0)

\* A key that T may declare and that is falsy: the empty string.
FalsyKey == ""

\* The arguments of the calls of connect that are modelled.  The first is a
\* key, a stream or a signal.
ConnectFirstArgs ==
  {JsString("a"), JsString(FalsyKey)}
    \cup {JsObservable(c) : c \in Sources} \cup {JsSignal(c) : c \in Sources}

ConnectSecondArgs ==
  {JsUndefined, JsNull, JsRecord([a |-> 1]), JsFunction(<<"set", "a">>)}
    \cup {JsObservable(c) : c \in Sources} \cup {JsSignal(c) : c \in Sources}

ConnectThirdArgs == {JsUndefined, JsNull, JsFunction(<<"val">>)}

\* The branch of connect the arguments take and the stream it hands to the
\* accumulator.
ConnectBranch(a1, a2, a3) ==
  LET hasInput == ~IsKeyOf(a1)
      key == IF ~hasInput /\ IsKeyOf(a1) THEN a1 ELSE JsNull
      slices == IF Truthy(a2) /\ (IsObservable(a2) \/ IsSignal(a2)) THEN a2 ELSE JsNull
      stateReducer == IF Truthy(a2) /\ ~IsObservable(a2) /\ ~IsSignal(a2)
                      THEN a2 ELSE JsUndefined
  IN  IF a3 = JsUndefined /\ a2 = JsUndefined /\ hasInput
      THEN [shape |-> "slice", source |-> a1.id, key |-> "a", reducer |-> <<>>]
      ELSE IF hasInput /\ a3 = JsUndefined /\ Truthy(stateReducer)
      THEN [shape |-> "reduce", source |-> a1.id, key |-> "a",
            reducer |-> IF TypeOf(stateReducer) = "function"
                        THEN stateReducer.fn ELSE NotAFunction]
      ELSE IF a3 = JsUndefined /\ Truthy(key) /\ slices # JsNull
      THEN [shape |-> "key", source |-> a2.id, key |-> a1.str, reducer |-> <<>>]
      ELSE IF TypeOf(a3) = "function" /\ Truthy(key) /\ slices # JsNull
      THEN [shape |-> "keyReduce", source |-> a2.id, key |-> a1.str, reducer |-> a3.fn]
      ELSE [shape |-> "throw", source |-> "", key |-> "a", reducer |-> <<>>]

\* connect(keyOrInputOrSlice$, projectOrSlices$?, projectValueFn?) for any
\* arguments: one of the four branches hands a stream to the accumulator, or
\* the call throws 'wrong params passed to connect'.
Connect(a1, a2, a3) ==
  LET branch == ConnectBranch(a1, a2, a3)
      threw == branch.shape = "throw"
  IN  /\ ~threw => Unconnected(branch.source)
      /\ sources' = IF threw THEN sources
                    ELSE [sources EXCEPT ![branch.source] =
                            NextSliceObservable(branch.shape, branch.key, branch.reducer)]
      /\ UNCHANGED cacheVars
      /\ lastOp' = [op |-> "connect", args |-> <<a1, a2, a3>>, threw |-> threw,
                    source |-> branch.source, sourcesBefore |-> sources]
      /\ UNCHANGED <<accVars, subs, destroyed, fxVars, sigVars>>

(***************************************************************************)
(* Lifecycle                                                               *)
(***************************************************************************)
\* ngOnDestroy(): this.subscription.unsubscribe().  The subscription holds
\* what the constructor's subscribe() returned: the accumulator's connection
\* and the Runner subscription the constructor started.
NgOnDestroy ==
  /\ destroyed' = TRUE
  /\ accOpen' = FALSE
  /\ runner' = [runner EXCEPT ![1] = "closed"]
  /\ sources' = [c \in Sources |-> [sources[c] EXCEPT !.subscribed = FALSE]]
  /\ UNCHANGED cacheVars
  /\ lastOp' = [op |-> "ngOnDestroy", first |-> ~destroyed]
  /\ UNCHANGED <<state, stateRef, accumulatorFn, replay, mergeCalls, history,
                 subs, effects, sigVars>>

\* subscribe(): a new Subscription holding accumulator.subscribe() (the shared
\* connection: connecting again starts nothing new, and a closed accumulator
\* stays closed) and effectObservable.subscribe() (a new subscription of the
\* Runner, which receives the streams held from then on); signalStoreProxy
\* is assigned a new proxy.  The caller owns the returned Subscription.
Subscribe ==
  /\ Len(runner) < 1 + MaxSubscribeCalls
  /\ runner' = Append(runner, "live")
  /\ proxies' = Append(proxies, EmptyRecord)
  /\ UNCHANGED cacheVars
  /\ lastOp' = [op |-> "subscribe"]
  /\ UNCHANGED <<accVars, subs, destroyed, effects, sources, handles>>

(***************************************************************************)
(* signal                                                                  *)
(***************************************************************************)
\* signal(k): this.signalStoreProxy[k].  The proxy creates the handle on the
\* first read of k, with get(k) as its value, and returns the cached handle
\* afterwards.  A handle is identified by the proxy that made it.
Signal(k) ==
  LET cur == Len(proxies)
  IN  /\ proxies' = IF k \in DOMAIN proxies[cur]
                    THEN proxies
                    ELSE [proxies EXCEPT ![cur] =
                            [j \in (DOMAIN @) \cup {k} |->
                               IF j = k THEN GetKey(k) ELSE @[j]]]
      /\ handles' = [handles EXCEPT ![k] = @ \cup {cur}]
      /\ UNCHANGED cacheVars
      /\ lastOp' = [op |-> "signal", key |-> k, handle |-> cur]
      /\ UNCHANGED <<accVars, subs, destroyed, fxVars, sources>>

(***************************************************************************)
(* InMemoryCacheHandler (libs/isr/server/src/cache-handlers)               *)
(***************************************************************************)
\* At most this many calls of add, delete and clearCache in one behaviour.
MaxCacheOps == 3

Urls == {"u1", "u2"}

Htmls == {"h1", "h2"}

\* Date.now() at the calls of add.
Times == {1, 2}

\* const defaultCacheISRConfig = { revalidate: null, buildId: null }
DefaultCacheISRConfig == [revalidate |-> JsNull, buildId |-> JsNull]

\* The config argument of add: left out, or a config of the caller.
CacheConfigs == {JsUndefined, JsRecord([revalidate |-> JsNumber(5), buildId |-> JsNull])}

\* A parameter with a default value: the default replaces undefined.
ConfigOrDefault(config) ==
  IF config = JsUndefined THEN DefaultCacheISRConfig ELSE config.rec

\* The regular expressions handed to getByRegExp, each with the urls it
\* matches.
RegExps == {<<"u1$", {"u1"}>>, <<"^u", Urls>>, <<"x", {}>>}

\* Map: has, get, set, delete and keys, over entries kept in insertion order.
MapHas(m, k) == \E i \in DOMAIN m : m[i].key = k

MapGet(m, k) == m[CHOOSE i \in DOMAIN m : m[i].key = k].value

MapSet(m, k, v) ==
  IF MapHas(m, k)
  THEN [i \in DOMAIN m |-> IF m[i].key = k THEN [key |-> k, value |-> v] ELSE m[i]]
  ELSE Append(m, [key |-> k, value |-> v])

MapDelete(m, k) == SelectSeq(m, LAMBDA e : e.key # k)

MapKeys(m) == [i \in DOMAIN m |-> m[i].key]

\* A promise takes the first call of resolve or reject its executor makes;
\* the calls after it do nothing.
PromiseOutcome(calls) == IF calls = <<>> THEN [state |-> "pending"] ELSE Head(calls)

\* How many times the promise changes from pending to settled.
PromiseSettlements(calls) == IF calls = <<>> THEN 0 ELSE 1

Resolve(v) == [state |-> "fulfilled", value |-> v]

Reject(r) == [state |-> "rejected", reason |-> r]

CanLog == Len(cacheLog) < MaxCacheOps

CacheOp(name, url, calls) ==
  [op |-> name, url |-> url, calls |-> calls, outcome |-> PromiseOutcome(calls),
   settlements |-> PromiseSettlements(calls), before |-> cache]

RxStateUnchanged ==
  UNCHANGED <<accVars, subs, destroyed, fxVars, sources, sigVars>>

\* add that keeps the entry a url already has.
CacheAddIfAbsent(url, html, config, now) ==
  LET cacheData == [html |-> html, options |-> ConfigOrDefault(config), createdAt |-> now]
  IN  /\ CanLog
      /\ cache' = IF MapHas(cache, url) THEN cache ELSE MapSet(cache, url, cacheData)
      /\ cacheLog' = Append(cacheLog, [op |-> "add", url |-> url, html |-> html,
                                       config |-> config])
      /\ lastOp' = CacheOp("cache.add", url, <<Resolve(JsUndefined)>>)
      /\ RxStateUnchanged

\* add(url, html, config = defaultCacheISRConfig)
CacheAdd(url, html, config, now) ==
  LET cacheData == [html |-> html, options |-> ConfigOrDefault(config), createdAt |-> now]
  IN  /\ CanLog
      /\ cache' = MapSet(cache, url, cacheData)
      /\ cacheLog' = Append(cacheLog, [op |-> "add", url |-> url, html |-> html,
                                       config |-> config])
      /\ lastOp' = CacheOp("cache.add", url, <<Resolve(JsUndefined)>>)
      /\ RxStateUnchanged

\* get(url): resolve is called when the url is there, and reject is called in
\* every case.
CacheGet(url) ==
  LET calls == (IF MapHas(cache, url) THEN <<Resolve(MapGet(cache, url))>> ELSE <<>>)
                 \o <<Reject("This url does not exist in cache!")>>
  IN  /\ lastOp' = CacheOp("cache.get", url, calls)
      /\ UNCHANGED cacheVars
      /\ RxStateUnchanged

\* getByRegExp(regex)
CacheGetByRegExp(regex) ==
  LET result == SelectSeq(MapKeys(cache), LAMBDA key : key \in regex[2])
  IN  /\ lastOp' = CacheOp("cache.getByRegExp", regex[1], <<Resolve(result)>>)
      /\ UNCHANGED cacheVars
      /\ RxStateUnchanged

\* getAll()
CacheGetAll ==
  /\ lastOp' = CacheOp("cache.getAll", "", <<Resolve(MapKeys(cache))>>)
  /\ UNCHANGED cacheVars
  /\ RxStateUnchanged

\* has(url)
CacheHas(url) ==
  /\ lastOp' = CacheOp("cache.has", url, <<Resolve(MapHas(cache, url))>>)
  /\ UNCHANGED cacheVars
  /\ RxStateUnchanged

\* delete(url)
CacheDelete(url) ==
  /\ CanLog
  /\ cache' = MapDelete(cache, url)
  /\ cacheLog' = Append(cacheLog, [op |-> "delete", url |-> url])
  /\ lastOp' = CacheOp("cache.delete", url, <<Resolve(MapHas(cache, url))>>)
  /\ RxStateUnchanged

\* clearCache()
CacheClear ==
  /\ CanLog
  /\ cache' = <<>>
  /\ cacheLog' = Append(cacheLog, [op |-> "clearCache"])
  /\ lastOp' = CacheOp("cache.clearCache", "", <<Resolve(TRUE)>>)
  /\ RxStateUnchanged

(***************************************************************************)
(* Specifications                                                          *)
(***************************************************************************)
\* The constructor: fields initialised, subscribe() called once.
Init ==
  /\ state = EmptyRecord
  /\ stateRef = 0
  /\ accumulatorFn = "default"
  /\ accOpen = TRUE
  /\ replay = <<>>
  /\ mergeCalls = 0
  /\ history = <<>>
  /\ subs = [s \in Subs |-> NoSub]
  /\ destroyed = FALSE
  /\ runner = <<"live">>
  /\ effects = [e \in Effects |-> NoEffect]
  /\ sources = [c \in Sources |-> NoSource]
  /\ proxies = <<EmptyRecord>>
  /\ handles = [k \in Keys |-> {}]
  /\ lastOp = [op |-> "constructor"]
  /\ cache = <<>>
  /\ cacheLog = <<>>

SetNext ==
  \/ \E p \in Patches : SetPartial(p)
  \/ \E fn \in ProjectStateFns : SetProject(fn)
  \/ \E k \in Keys, fn \in ProjectValueFns : SetKeyProject(k, fn)

SelectNext == \E s \in Subs, args \in SelectArgs : SubscribeSelect(s, args)

HoldNext ==
  \/ \E e \in Effects, hasFn \in BOOLEAN : Hold(e, hasFn)
  \/ \E e \in Effects, throws \in BOOLEAN : EffectEmit(e, throws)
  \/ \E e \in Effects : EffectError(e)
  \/ \E e \in Effects : EffectComplete(e)

ConnectNext ==
  \/ \E c \in Sources : ConnectSlices(c)
  \/ \E c \in Sources, k \in Keys : ConnectKey(c, k)
  \/ \E c \in Sources : \E v \in SourceValues(sources[c]) : SourceEmit(c, v)

Next ==
  \/ SetNext
  \/ SelectNext
  \/ HoldNext
  \/ ConnectNext
  \/ NgOnDestroy
  \/ Subscribe
  \/ \E k \in Keys : Signal(k)

Spec == Init /\ [][Next]_vars

\* set alone, on a freshly constructed container.
SetSpec == Init /\ [][SetNext]_vars

SelectSpecNext ==
  \/ \E p \in FewPatches : SetPartial(p)
  \/ SelectNext
  \/ NgOnDestroy

\* set and the subscribers of select views, up to teardown and after it.
SelectSpec == Init /\ [][SelectSpecNext]_vars

\* A subscriber's callback calls set at most this many times per emission.
MaxReentry == 2

ReentryFns == UNION {[1..n -> ProjectStateFns] : n \in 1..MaxReentry}

ReentrySpecNext ==
  \/ SetNext
  \/ SelectNext
  \/ \E p \in Patches, fns \in ReentryFns : SetPartialReentrant(p, fns)

\* set called from the top level and from inside subscriber callbacks.
ReentrySpec == Init /\ [][ReentrySpecNext]_vars

TinyPatches == {p \in Patches : DOMAIN p = {"a"}}

HoldSpecNext ==
  \/ HoldNext
  \/ \E p \in TinyPatches : SetPartial(p)
  \/ NgOnDestroy
  \/ Subscribe

\* hold, the notifications of held streams, set, subscribe() and teardown.
HoldSpec == Init /\ [][HoldSpecNext]_vars

TeardownSpecNext ==
  \/ ConnectNext
  \/ \E e \in Effects : Hold(e, TRUE)
  \/ \E e \in Effects : EffectEmit(e, FALSE)
  \/ NgOnDestroy
  \/ Subscribe

\* connect, hold, the emissions of the registered streams, subscribe() and
\* teardown.
TeardownSpec == Init /\ [][TeardownSpecNext]_vars

SetMisuseSpecNext ==
  \/ \E first \in SetFirstArgs, second \in SetSecondArgs : Set(first, second)
  \/ SelectNext

\* set with any arguments, and the subscribers of select views.
SetMisuseSpec == Init /\ [][SetMisuseSpecNext]_vars

ConnectMisuseSpecNext ==
  \/ \E a1 \in ConnectFirstArgs, a2 \in ConnectSecondArgs, a3 \in ConnectThirdArgs :
       Connect(a1, a2, a3)
  \/ NgOnDestroy

\* connect with any arguments, up to teardown and after it.
ConnectMisuseSpec == Init /\ [][ConnectMisuseSpecNext]_vars

\* The reducers the specification passes to connect.
FewStateReducers == {<<"set", "a">>, <<"sum", "a">>}

FewValueReducers == {<<"val">>, <<"sum", "a">>}

ConnectSpecNext ==
  \/ \E c \in Sources : ConnectSlices(c)
  \/ \E c \in Sources, r \in FewStateReducers : ConnectReducer(c, r)
  \/ \E c \in Sources, k \in Keys : ConnectKey(c, k)
  \/ \E c \in Sources, k \in Keys, r \in FewValueReducers : ConnectKeyReducer(c, k, r)
  \/ \E c \in Sources : \E v \in SourceValues(sources[c]) : SourceEmit(c, v)
  \/ SetPartial([a |-> 1])
  \/ \E args \in SelectArgs : SubscribeSelect("s1", args)

\* connect in its four shapes, the emissions of the connected streams, set
\* and a subscriber of a select view.
ConnectSpec == Init /\ [][ConnectSpecNext]_vars

\* What the connected streams of the smaller specifications emit.
FewSourceValues(src) == IF src.shape = "slice" THEN TinyPatches ELSE Vals

FailureSpecNext ==
  \/ ConnectSlices("c1")
  \/ ConnectKey("c2", "b")
  \/ \E c \in Sources : \E v \in FewSourceValues(sources[c]) : SourceEmit(c, v)
  \/ \E c \in Sources : SourceError(c)
  \/ SetPartial([a |-> 1])
  \/ SelectNext

\* connect, the emissions and errors of the connected streams, set and the
\* subscribers of select views.
FailureSpec == Init /\ [][FailureSpecNext]_vars

LifecycleSpecNext ==
  \/ SetPartial([a |-> 1])
  \/ ConnectKey("c1", "a")
  \/ \E v \in Vals : SourceEmit("c1", v)
  \/ \E e \in Effects : Hold(e, TRUE)
  \/ \E e \in Effects : EffectEmit(e, FALSE)
  \/ NgOnDestroy
  \/ Subscribe

\* The public operations before and after teardown: set, connect, hold,
\* subscribe() and ngOnDestroy, with the emissions of the registered streams.
LifecycleSpec == Init /\ [][LifecycleSpecNext]_vars

AccumulatorSpecNext ==
  \/ \E fn \in AccumulationFns : SetAccumulator(fn)
  \/ \E p \in TinyPatches \cup {[b |-> 1]} : SetPartial(p)
  \/ \E args \in SelectArgs : SubscribeSelect("s1", args)

\* setAccumulator, set and a subscriber of a select view.
AccumulatorSpec == Init /\ [][AccumulatorSpecNext]_vars

EffectSpecNext ==
  \/ HoldNext
  \/ SetPartial([a |-> 1])
  \/ \E args \in SelectArgs : SubscribeSelect("s1", args)

\* hold, the notifications of held streams, set and a subscriber of a select
\* view.
EffectSpec == Init /\ [][EffectSpecNext]_vars

ReentrantWriteSpecNext ==
  \/ \E p \in TinyPatches : SetPartial(p)
  \/ SelectNext
  \/ ConnectKey("c1", "b")
  \/ \E p \in TinyPatches, fns \in ReentryFns : SetPartialReentrant(p, fns)
  \/ \E p \in TinyPatches, v \in Vals : SetPartialReentrantEmit(p, "c1", v)

\* set from the top level, and set and emissions of a connected stream from
\* inside the callbacks of subscribers of select views.
ReentrantWriteSpec == Init /\ [][ReentrantWriteSpecNext]_vars

SignalSpecNext ==
  \/ \E k \in Keys : Signal(k)
  \/ \E p \in FewPatches : SetPartial(p)
  \/ Subscribe
  \/ NgOnDestroy

\* signal(k), set, subscribe() and teardown.
SignalSpec == Init /\ [][SignalSpecNext]_vars

GetPathSpecNext ==
  \/ \E p \in NestedPatches : SetPartial(p)
  \/ \E keys \in Paths : GetKeys(keys)

\* get(k1..kn) between patches whose fields hold numbers, null and objects.
GetPathSpec == Init /\ [][GetPathSpecNext]_vars

ReducerSnapshotSpecNext ==
  \/ \E r \in FewStateReducers : ConnectReducer("c1", r)
  \/ \E k \in Keys, r \in FewValueReducers : ConnectKeyReducer("c2", k, r)
  \/ \E c \in Sources : \E v \in SourceValues(sources[c]) : SourceEmit(c, v)
  \/ \E fn \in {<<"inc", "a">>, <<"empty">>} : SetProject(fn)
  \/ \E p \in TinyPatches : SetPartial(p)

\* The reducers of connect and the projection functions of set, called on
\* the same container.
ReducerSnapshotSpec == Init /\ [][ReducerSnapshotSpecNext]_vars

CacheSpecNext ==
  \/ \E url \in Urls, html \in Htmls, config \in CacheConfigs, now \in Times :
       CacheAdd(url, html, config, now)
  \/ \E url \in Urls : CacheGet(url)
  \/ \E regex \in RegExps : CacheGetByRegExp(regex)
  \/ CacheGetAll
  \/ \E url \in Urls : CacheHas(url)
  \/ \E url \in Urls : CacheDelete(url)
  \/ CacheClear

\* The operations of an InMemoryCacheHandler, in any order.
CacheSpec == Init /\ [][CacheSpecNext]_vars

(***************************************************************************)
(* Claims                                                                  *)
(***************************************************************************)
\* The left fold of the default accumulator over the first n landed patches,
\* starting from the empty record.
RECURSIVE FoldPatches(_, _)
FoldPatches(h, n) ==
  IF n = 0 THEN EmptyRecord
  ELSE DefaultAccumulator(FoldPatches(h, n - 1), h[n].slice)

\* C1 as stated: right after a set returns, get() equals the left fold of the
\* default merge function over the patches applied so far, starting from the
\* empty record.
C1_MergeOrderAsStated ==
  lastOp.op = "set" => Get = FoldPatches(history, Len(history))

\* C1, amended: right after a set returns, get() equals the left fold of the
\* default merge function over the patches applied so far when that fold names
\* at least one field, and is "no value" when the fold is the empty record
\* (every patch so far named no field).
C1_MergeOrder ==
  lastOp.op = "set" =>
    LET fold == FoldPatches(history, Len(history))
    IN  Get = IF KeyCount(fold) > 0 THEN fold ELSE Undefined

\* C1's case: a later patch has overwritten a field of an earlier one and
\* left another field of it alone.
C1_Witness ==
  /\ lastOp.op = "set"
  /\ Len(history) >= 2
  /\ \E k \in Keys, j \in Keys :
       /\ k \in DOMAIN history[1].slice /\ k \in DOMAIN history[2].slice
       /\ history[1].slice[k] # history[2].slice[k]
       /\ j \in DOMAIN history[1].slice /\ j \notin DOMAIN history[2].slice
       /\ Len(history) = 2 => (Get[k] = history[2].slice[k] /\ Get[j] = history[1].slice[j])

\* C2: set(fn) and set(key, fn) call fn once with the snapshot of the last
\* completed merge and merge the result as one patch, no other merge landing
\* between the read of the snapshot and the write; set({a:1}) followed by
\* set(s => ({a: s.a + 1})) gives get('a') = 2.
C2_ProjectionSetAtomic ==
  /\ \A i \in DOMAIN history :
       history[i].read # <<>> => history[i].read[1] = history[i].base
  /\ (lastOp.op = "set" /\ lastOp.form \in {"project", "key"}) =>
       /\ lastOp.fnCalls = 1
       /\ lastOp.fnArg = FoldPatches(history, Len(history) - 1)
       /\ state = DefaultAccumulator(lastOp.fnArg, lastOp.slice)
  /\ (/\ Len(history) = 2
      /\ history[1].slice = [a |-> 1] /\ history[1].form = "partial"
      /\ lastOp.op = "set" /\ lastOp.form = "project" /\ lastOp.fn = <<"inc", "a">>)
       => GetKey("a") = 2

\* Subscribers by what they asked select for.
WholeSubs == {s \in Subs : subs[s].active /\ subs[s].asked = <<>>}

KeyedSubs(k) == {s \in Subs : subs[s].active /\ subs[s].asked = <<k>>}

\* C3: every call of set produces one emission on a subscriber of select(),
\* also when the patch repeats the field values the snapshot already has: the
\* two emissions then carry equal values in two different snapshot objects.
C3_DuplicateEmission ==
  \A s \in WholeSubs :
    LET r == subs[s].recv
        n == Len(r)
    IN  /\ n = subs[s].initial + (Len(history) - subs[s].since)
        /\ (lastOp.op = "set" /\ lastOp.landed /\ lastOp.before = state /\ n >= 2) =>
             (r[n].val = r[n - 1].val /\ r[n].ref # r[n - 1].ref)

\* C3's case: set({a:1}) twice under a subscriber of select().
C3_Witness ==
  \E s \in WholeSubs :
    /\ subs[s].since = 0
    /\ Len(history) = 2
    /\ history[1].slice = [a |-> 1] /\ history[2].slice = [a |-> 1]
    /\ history[1].form = "partial" /\ history[2].form = "partial"
    /\ Len(subs[s].recv) = 2
    /\ subs[s].recv[1].val = subs[s].recv[2].val

\* C4: a subscriber of select(k) receives values of field k only, never
\* undefined, no two in a row the same; the last one is the current get(k);
\* a patch that leaves field k as it was causes no emission.
C4_KeyedDistinct ==
  \A k \in Keys : \A s \in KeyedSubs(k) :
    LET r == subs[s].recv
        n == Len(r)
    IN  /\ \A i \in 1..n : DOMAIN r[i].val = {k} /\ r[i].val[k] \in Vals
        /\ \A i \in 1..(n - 1) : r[i].val # r[i + 1].val
        /\ (lastOp.op = "set" /\ lastOp.landed /\ GetKey(k) = Pluck(lastOp.before, k)) =>
             \A i \in 1..n : r[i].ref # stateRef
        /\ (lastOp.op = "set" /\ lastOp.landed /\ GetKey(k) # Pluck(lastOp.before, k)) =>
             (n > 0 /\ r[n] = [ref |-> stateRef, val |-> [j \in {k} |-> GetKey(k)]])

\* C4's case: state {a:1, b:..}, a subscriber of select('a') holding 1, and a
\* set that changed b alone.
C4_Witness ==
  \E s \in KeyedSubs("a") :
    /\ lastOp.op = "set" /\ lastOp.landed
    /\ "a" \in DOMAIN lastOp.before /\ "b" \in DOMAIN lastOp.before
    /\ lastOp.before["a"] = state["a"]
    /\ lastOp.slice = [b |-> 1]
    /\ subs[s].since < Len(history) - 1
    /\ Len(subs[s].recv) = 1

\* C5 as stated: a subscriber that subscribes to select() or select(k) after
\* one or more patches have landed receives exactly one value at subscription
\* time, the latest value of the view.
C5_LateReplayAsStated ==
  (lastOp.op = "subscribeSelect" /\ lastOp.landed >= 1) =>
    LET r == subs[lastOp.sub].recv
    IN  /\ Len(r) = 1
        /\ r[1].ref = stateRef
        /\ lastOp.args = <<>> => r[1].val = state
        /\ lastOp.args # <<>> => r[1].val = [k \in {lastOp.args[1]} |-> GetKey(k)]

\* C5, amended: on a container that has not been torn down, a subscriber that
\* subscribes after one or more patches have landed receives at subscription
\* time exactly one value from select(), the latest snapshot; from select(k)
\* it receives exactly one value, get(k), when field k is in the snapshot, and
\* nothing when it is not.
C5_LateReplay ==
  (lastOp.op = "subscribeSelect" /\ lastOp.landed >= 1 /\ lastOp.live) =>
    LET r == subs[lastOp.sub].recv
        args == lastOp.args
    IN  IF args = <<>>
        THEN r = <<Emission(stateRef, state)>>
        ELSE IF GetKey(args[1]) # UndefinedVal
             THEN r = <<[ref |-> stateRef, val |-> [k \in {args[1]} |-> GetKey(k)]]>>
             ELSE r = <<>>

\* C5's case: a subscriber of select('a') arriving after two patches, the
\* second of which changed a, and holding the second value.
C5_Witness ==
  /\ lastOp.op = "subscribeSelect" /\ lastOp.live
  /\ lastOp.landed = 2
  /\ lastOp.args = <<"a">>
  /\ history[1].slice = [a |-> 1]
  /\ history[2].slice = [a |-> 2]
  /\ Len(subs[lastOp.sub].recv) = 1
  /\ subs[lastOp.sub].recv[1].val["a"] = 2

C7_EffectIsolation ==
  /\ [](accOpen = ~destroyed)
  /\ [][\A e \in Effects :
          (effects[e].stream = "live" /\ effects'[e].stream = "errored") =>
            /\ runner' = runner
            /\ \A f \in Effects \ {e} : effects'[f] = effects[f]
            /\ accVars' = accVars]_vars

\* C7's case: after the stream of e1 has errored, the stream of e2 emits and
\* its callback runs, and patches have landed.
C7_Witness ==
  /\ effects["e1"].held /\ effects["e1"].stream = "errored"
  /\ lastOp.op = "effect" /\ lastOp.effect = "e2" /\ lastOp.notification = "next"
  /\ lastOp.ran = 1
  /\ ~destroyed
  /\ Len(history) >= 1

\* C8: a callback of hold that throws ends that registration alone: no
\* subscription of the Runner is ended by it, and the accumulator takes
\* patches until teardown.
C8_CallbackFailureIsolated ==
  /\ \A i \in DOMAIN runner : runner[i] # "errored"
  /\ accOpen = ~destroyed

\* C9: after ngOnDestroy, an emission of a source connected before teardown
\* leaves get() as it was, and an emission of a stream held before teardown
\* does not run its callback.
C9_TeardownCascade ==
  /\ (destroyed /\ lastOp.op = "sourceEmit" /\ lastOp.early) => state = lastOp.before
  /\ (destroyed /\ lastOp.op = "effect" /\ lastOp.early) => lastOp.ran = 0

\* C10: signal(k) returns the same handle at every call, and the value of
\* every handle of k is get(k).
C10_DerivedValueCaching ==
  /\ \A k \in Keys : Cardinality(handles[k]) <= 1
  /\ \A g \in DOMAIN proxies : \A k \in DOMAIN proxies[g] : proxies[g][k] = GetKey(k)

\* The fields named by the patches that have landed.
LandedFields == UNION {DOMAIN history[i].slice : i \in DOMAIN history}

\* C11 as stated: get() is "no value" while no patch has landed, and is the
\* present snapshot once at least one patch, naming zero or more fields, has
\* landed.
C11_AbsentStateReadAsStated ==
  /\ Len(history) = 0 => Get = Undefined
  /\ Len(history) >= 1 => Get = state

\* C11, amended: get() is "no value" while no patch has landed and while
\* every patch that has landed named no field; once a patch naming at least
\* one field has landed it is the present snapshot, which holds the fields
\* the landed patches named.
C11_AbsentStateRead ==
  /\ LandedFields = {} => Get = Undefined
  /\ LandedFields # {} => (Get = state /\ DOMAIN Get = LandedFields)

\* C11's case: a patch naming no field has landed, then one naming a field,
\* and get() is the snapshot with that field.
C11_Witness ==
  /\ Len(history) = 2
  /\ history[1].slice = EmptyRecord
  /\ history[2].slice = [a |-> 1]
  /\ Get = [a |-> 1]

\* The three forms of set: a record alone, a projection alone, a key with a
\* function.
ValidSetForm(first, second) ==
  \/ first.type = "record" /\ second = JsUndefined
  \/ first.type = "function" /\ second = JsUndefined
  \/ first.type = "string" /\ second.type = "function"

\* C12: a call of set is accepted exactly when it has one of the three forms;
\* every other call throws, and a call that throws leaves the snapshot and
\* what every subscriber of a view has received unchanged.
C12_SetMisuse ==
  lastOp.op = "set" =>
    /\ lastOp.threw <=> ~ValidSetForm(lastOp.first, lastOp.second)
    /\ lastOp.threw =>
         (state = lastOp.before /\ subs = lastOp.subsBefore)

\* The four shapes of connect: a source alone, a source with a reducer, a key
\* with a source, a key with a source and a reducer.
ConnectShape(a1, a2, a3) ==
  LET isSource(x) == x.type \in {"observable", "signal"}
  IN  CASE isSource(a1) /\ a2 = JsUndefined /\ a3 = JsUndefined -> "slice"
        [] isSource(a1) /\ a2.type = "function" /\ a3 = JsUndefined -> "reduce"
        [] a1.type = "string" /\ isSource(a2) /\ a3 = JsUndefined -> "key"
        [] a1.type = "string" /\ isSource(a2) /\ a3.type = "function" -> "keyReduce"
        [] OTHER -> "none"

\* C13: a call of connect in one of the four shapes hands exactly one stream
\* to the accumulator, registered in that shape; every other call throws and
\* registers nothing.
C13_ConnectOverloads ==
  (lastOp.op = "connect") =>
    LET shape == ConnectShape(lastOp.args[1], lastOp.args[2], lastOp.args[3])
        changed == {c \in Sources : sources[c] # lastOp.sourcesBefore[c]}
    IN  IF shape = "none"
        THEN lastOp.threw /\ changed = {}
        ELSE /\ ~lastOp.threw
             /\ changed = {lastOp.source}
             /\ sources[lastOp.source].shape = shape

\* C14: an emission v of a connected stream lands as one patch: v itself for
\* connect(source), reducer(snapshot, v) for connect(source, reducer),
\* {key: v} for connect(key, source) and {key: reducer(snapshot, v)} for
\* connect(key, source, reducer), the snapshot being the one the accumulator
\* holds; the patch is merged like a set of it, fields it does not name keep
\* their values, and a subscriber of select(key) whose field changed holds
\* the new value.
C14_KeyedReducedConnect ==
  (lastOp.op = "sourceEmit" /\ lastOp.subscribed) =>
    /\ ~lastOp.threw
    /\ LET src == sources[lastOp.source]
           v == lastOp.value[1]
           snapshot == lastOp.before
           patch == CASE src.shape = "key" -> [k \in {src.key} |-> v]
                      [] src.shape = "reduce" -> ApplyStateReducer(src.reducer, snapshot, v)
                      [] src.shape = "keyReduce" ->
                           [k \in {src.key} |-> ApplyValueReducer(src.reducer, snapshot, v)]
                      [] OTHER -> v
       IN  /\ history # <<>>
           /\ history[Len(history)].slice = patch
           /\ state = DefaultAccumulator(snapshot, patch)
           /\ \A k \in Keys \ DOMAIN patch : Pluck(state, k) = Pluck(snapshot, k)
           /\ \A k \in DOMAIN patch : \A s \in KeyedSubs(k) :
                /\ subs[s].recv # <<>>
                /\ subs[s].recv[Len(subs[s].recv)].val[k] = patch[k]
                /\ patch[k] # Pluck(snapshot, k) =>
                     subs[s].recv[Len(subs[s].recv)].ref = stateRef

\* C15: when a connected stream that the accumulator is subscribed to errors,
\* every subscriber of select() and of a keyed view at that moment has
\* received the error and the accumulation has ended; and once it has ended
\* no step changes the snapshot or lands a patch.
C15_UpstreamFailure ==
  /\ []((lastOp.op = "sourceError" /\ lastOp.subscribed) =>
          /\ ~accOpen
          /\ state = lastOp.before
          /\ \A s \in Subs : lastOp.subsBefore[s].active =>
               (subs[s].failed /\ subs[s].recv = lastOp.subsBefore[s].recv))
  /\ [][~accOpen => (state' = state /\ history' = history /\ ~accOpen')]_vars

\* C15's case: with a subscriber of select() and one of select('a'), a
\* connected stream has errored after a patch had landed, a second stream
\* being connected, and a set came after it and changed nothing.
C15_Witness ==
  /\ ~destroyed /\ ~accOpen
  /\ history # <<>>
  /\ subs["s1"].active /\ subs["s1"].asked = <<>> /\ subs["s1"].failed
  /\ subs["s2"].active /\ subs["s2"].asked = <<"a">> /\ subs["s2"].failed
  /\ sources["c2"].shape # "none"
  /\ lastOp.op = "set" /\ ~lastOp.landed
  /\ state = history[Len(history)].slice

\* C16: the patches of set calls and of connected streams land one at a time
\* in one order, each merged onto the result of the one before it; the
\* snapshot is the result of the landed patches in that order; and a
\* subscriber of select() has received, in that order and once each, the
\* snapshot of every merge since it subscribed (after the replayed one, if
\* any), each the result of the patches landed up to it.
C16_SequentialMerges ==
  /\ \A i \in DOMAIN history : history[i].base = i - 1
  /\ stateRef = Len(history)
  /\ state = FoldPatches(history, Len(history))
  /\ \A s \in WholeSubs :
       LET r == subs[s].recv
           first == subs[s].since + 1 - subs[s].initial
       IN  /\ Len(r) = Len(history) - first + 1
           /\ \A j \in DOMAIN r :
                /\ r[j].ref = first + j - 1
                /\ r[j].val = FoldPatches(history, r[j].ref)

\* C16's case: an emission of the first stream, a set and an emission of the
\* second stream have landed in that order under two subscribers of
\* select(), which hold the three snapshots.
C16_Witness ==
  /\ Len(history) = 3
  /\ history[1].form = "connect" /\ history[1].slice = [a |-> 2]
  /\ history[2].form = "partial" /\ history[2].slice = [a |-> 1]
  /\ history[3].form = "connect" /\ history[3].slice = [b |-> 2]
  /\ \A s \in Subs :
       /\ s \in WholeSubs
       /\ subs[s].since = 0
       /\ Len(subs[s].recv) = 3
       /\ subs[s].recv[3].val = [a |-> 1, b |-> 2]

\* C17: the constructor leaves the container active with one subscription of
\* the accumulator and one of the Runner; ngOnDestroy closes both; a torn-down
\* container stays torn down; a repeated ngOnDestroy changes nothing; and
\* after teardown no operation lands a patch, opens the accumulator, starts a
\* subscription of the Runner or runs the callback of a stream held after
\* teardown.
C17_Lifecycle ==
  /\ [](lastOp.op = "constructor" => (~destroyed /\ accOpen /\ runner = <<"live">>))
  /\ [](lastOp.op = "ngOnDestroy" => (destroyed /\ ~accOpen /\ runner[1] = "closed"))
  /\ [][destroyed => destroyed']_vars
  /\ [][(destroyed /\ lastOp'.op = "ngOnDestroy") =>
          (accVars' = accVars /\ subs' = subs /\ fxVars' = fxVars /\ sources' = sources
             /\ sigVars' = sigVars)]_vars
  /\ [][destroyed =>
          /\ ~accOpen'
          /\ state' = state
          /\ history' = history
          /\ LiveRunners' \subseteq LiveRunners
          /\ (lastOp'.op = "effect" /\ ~lastOp'.early) => lastOp'.ran = 0]_vars

\* The fold of the landed patches, each merged by the function recorded as in
\* force when it landed.
RECURSIVE FoldLanded(_, _)
FoldLanded(h, n) ==
  IF n = 0 THEN EmptyRecord
  ELSE Accumulate(h[n].acc, FoldLanded(h, n - 1), h[n].slice)

\* C18: right after setAccumulator(fn) the snapshot, the landed patches and
\* what every subscriber has received are as before, and fn is in force; only
\* setAccumulator changes the function in force; every patch that lands is
\* merged by the function in force at that step; and the snapshot is the
\* result of the landed patches, each merged by the function in force when it
\* landed.
C18_SetAccumulator ==
  /\ [](lastOp.op = "setAccumulator" =>
          /\ state = lastOp.before
          /\ subs = lastOp.subsBefore
          /\ replay = lastOp.replayBefore
          /\ Len(history) = lastOp.landed
          /\ accumulatorFn = lastOp.fn)
  /\ [](state = FoldLanded(history, Len(history)))
  /\ [][lastOp'.op # "setAccumulator" => accumulatorFn' = accumulatorFn]_vars
  /\ [][Len(history') > Len(history) =>
          /\ history'[Len(history')].acc = accumulatorFn
          /\ state' = Accumulate(accumulatorFn, state, history'[Len(history')].slice)
          /\ SubSeq(history', 1, Len(history)) = history]_vars

\* C18's case: {a:1} landed under the default function, {a:2} under a function
\* that keeps the first value, and {a:2} again under the default function; a
\* subscriber of select() saw a = 1, 1, 2.
C18_Witness ==
  /\ Len(history) = 3
  /\ history[1].slice = [a |-> 1] /\ history[1].acc = "default"
  /\ history[2].slice = [a |-> 2] /\ history[2].acc = "keepFirst"
  /\ history[3].slice = [a |-> 2] /\ history[3].acc = "default"
  /\ state = [a |-> 2]
  /\ "s1" \in WholeSubs
  /\ Len(subs["s1"].recv) = 3
  /\ subs["s1"].recv[2].val = [a |-> 1]

\* C19: a step that is a hold, or an emission, a completion or an error of a
\* held stream, leaves the snapshot, the accumulator, what every subscriber of
\* a view has received, the connected streams and the signals as they were.
C19_EffectsNeverTouchState ==
  [][lastOp'.op \in {"hold", "effect"} =>
       (accVars' = accVars /\ subs' = subs /\ sources' = sources /\ sigVars' = sigVars)]_vars

\* C19's case: under a subscriber of select() that holds the one snapshot
\* landed, the stream of e2 has errored and the stream of e1 emits and its
\* callback runs.
C19_Witness ==
  /\ lastOp.op = "effect" /\ lastOp.effect = "e1" /\ lastOp.notification = "next"
  /\ lastOp.ran = 1
  /\ effects["e2"].stream = "errored"
  /\ "s1" \in WholeSubs
  /\ Len(history) = 1
  /\ subs["s1"].recv = <<Emission(1, [a |-> 1])>>

\* C20: when callbacks running for the emission of patch p have written n
\* times (set, or an emission of a connected stream), p's merge and the n
\* writes are the last 1 + n merges, in that order: each write is a merge of
\* its own on the result of the one before it, none is missing, a snapshot
\* that a write was computed from is p's or a later one and holds p's
\* fields, and every subscriber of select() that was there before p has
\* received p's snapshot and then the snapshot of each write, in that order.
C20_ReentrantWrites ==
  (lastOp.op = "set" /\ lastOp.reentry # <<>>) =>
    LET n == Len(lastOp.reentry)
        at == Len(history) - n
    IN  /\ at >= 1
        /\ history[at].form = "partial" /\ history[at].slice = lastOp.slice
        /\ \A k \in DOMAIN lastOp.slice : FoldPatches(history, at)[k] = lastOp.slice[k]
        /\ \A i \in 1..n :
             /\ history[at + i].form \in {"project", "connect"}
             /\ history[at + i].base = at + i - 1
             /\ history[at + i].read # <<>> => history[at + i].read[1] >= at
        /\ stateRef = Len(history)
        /\ state = FoldPatches(history, Len(history))
        /\ \A s \in WholeSubs :
             subs[s].since < at =>
               LET r == subs[s].recv
               IN  /\ Len(r) >= n + 1
                   /\ \A i \in 0..n :
                        r[Len(r) - n + i] = Emission(at + i, FoldPatches(history, at + i))

\* C20's case: under a subscriber of select(), set({a: 1}) whose callback
\* calls set(s => ({a: s.a + 1})): the subscriber holds {a: 1}, then {a: 2}.
C20_Witness ==
  /\ lastOp.op = "set" /\ lastOp.reentry = <<<<"inc", "a">>>>
  /\ lastOp.slice = [a |-> 1]
  /\ "s1" \in WholeSubs
  /\ subs["s1"].recv = <<Emission(1, [a |-> 1]), Emission(2, [a |-> 2])>>
  /\ Get = [a |-> 2]

\* Whether every key of the path is there in object o.
RECURSIVE PathPresent(_, _)
PathPresent(o, keys) ==
  \/ keys = <<>>
  \/ /\ o.type = "record"
     /\ keys[1] \in DOMAIN o.rec
     /\ PathPresent(o.rec[keys[1]], SubSeq(keys, 2, Len(keys)))

\* The value at the end of a path that is there: o[k1]...[kn].
RECURSIVE NestedValue(_, _)
NestedValue(o, keys) ==
  IF Len(keys) = 0 THEN o
  ELSE NestedValue(o.rec[keys[1]], SubSeq(keys, 2, Len(keys)))

C22_ReducerSnapshot ==
  /\ (lastOp.op = "set" /\ lastOp.form = "project") => lastOp.fnArg = lastOp.before
  /\ (lastOp.op = "sourceEmit" /\ lastOp.subscribed
        /\ lastOp.shape \in {"reduce", "keyReduce"})
       => lastOp.got = lastOp.before

\* The most recent add(url) that no delete(url) and no clearCache has
\* followed, as <<call>>, or <<>> when there is none.
RECURSIVE LatestAdd(_, _)
LatestAdd(log, url) ==
  IF log = <<>> THEN <<>>
  ELSE LET last == log[Len(log)]
       IN  IF last.op = "clearCache" THEN <<>>
           ELSE IF last.url # url THEN LatestAdd(SubSeq(log, 1, Len(log) - 1), url)
           ELSE IF last.op = "delete" THEN <<>>
           ELSE <<last>>

CacheReads == {"cache.get", "cache.has", "cache.getAll", "cache.getByRegExp"}

\* C23 (InMemoryCacheHandler consistency): after any sequence of add, delete
\* and clearCache, get(url) settles exactly once, resolving with the html and
\* config of the most recent add(url) when url has been added and not deleted
\* or cleared since, and rejecting otherwise; has(url) is true and getAll()
\* contains url in exactly the first case; get, has, getAll and getByRegExp
\* never change the stored entries.
C23_CacheConsistency ==
  /\ lastOp.op = "cache.get" =>
       LET added == LatestAdd(cacheLog, lastOp.url)
       IN  /\ lastOp.settlements = 1
           /\ IF added # <<>>
              THEN /\ lastOp.outcome.state = "fulfilled"
                   /\ lastOp.outcome.value.html = added[1].html
                   /\ lastOp.outcome.value.options =
                        (IF added[1].config = JsUndefined THEN DefaultCacheISRConfig
                         ELSE added[1].config.rec)
              ELSE lastOp.outcome.state = "rejected"
  /\ lastOp.op = "cache.has" =>
       /\ lastOp.outcome.state = "fulfilled"
       /\ lastOp.outcome.value = (LatestAdd(cacheLog, lastOp.url) # <<>>)
  /\ lastOp.op = "cache.getAll" =>
       /\ lastOp.outcome.state = "fulfilled"
       /\ \A url \in Urls :
            (\E i \in DOMAIN lastOp.outcome.value : lastOp.outcome.value[i] = url)
              <=> (LatestAdd(cacheLog, url) # <<>>)
  /\ lastOp.op \in CacheReads => cache = lastOp.before

\* get(url) has resolved with the second of two adds of url, after another
\* url was added and deleted or the cache cleared.
C23_Witness ==
  /\ lastOp.op = "cache.get"
  /\ lastOp.outcome.state = "fulfilled"
  /\ Len(lastOp.calls) = 2
  /\ \E i, j \in DOMAIN cacheLog :
       /\ i < j
       /\ cacheLog[i].op = "add" /\ cacheLog[j].op = "add"
       /\ cacheLog[i].url = lastOp.url /\ cacheLog[j].url = lastOp.url
       /\ cacheLog[i].html # cacheLog[j].html
  /\ \E i \in DOMAIN cacheLog : cacheLog[i].op \in {"delete", "clearCache"}

====
